---- MODULE Spec2Model ----
(***************************************************************************)
(* Two arcade games of the repository: the falling-block puzzle game       *)
(* (src/main.py) and the fixed shooter (src/space_invader.py).             *)
(*                                                                         *)
(* Python lists are modelled as TLA+ sequences: the Python index i is the  *)
(* TLA+ index i + 1.  Coordinates (x, y) keep their Python values.         *)
(***************************************************************************)
EXTENDS Integers, Sequences, FiniteSets, TLC

(***************************************************************************)
(* Puzzle game: constants of src/main.py                                   *)
(***************************************************************************)
GRID_WIDTH == 10

GRID_HEIGHT == 20

\* fall_speed = 0.5 seconds per fall; the model counts time in milliseconds
FallSpeedMs == 500

\* SHAPES[shape_idx] of the source is SHAPES[shape_idx + 1] here
SHAPES ==
  << << <<1, 1, 1, 1>> >>,
     << <<1, 1>>, <<1, 1>> >>,
     << <<0, 1, 0>>, <<1, 1, 1>> >>,
     << <<0, 1, 1>>, <<1, 1, 0>> >>,
     << <<1, 1, 0>>, <<0, 1, 1>> >>,
     << <<1, 0, 0>>, <<1, 1, 1>> >>,
     << <<0, 0, 1>>, <<1, 1, 1>> >> >>

ShapeIdxs == 0 .. (Len(SHAPES) - 1)

(***************************************************************************)
(* Bounds of the model                                                     *)
(***************************************************************************)
\* pieces locked in one run of the puzzle game
MaxLocks == 1

\* key events delivered in one run of the puzzle game
MaxKeys == 4

\* height of the stack of rows in the grids given to clear_lines on its own
MaxStack == 4

\* frame durations (ms) the puzzle game's clock may report
Deltas == {250, 500}

(***************************************************************************)
(* Shooter game: constants of src/space_invader.py                         *)
(***************************************************************************)
SCREEN_WIDTH == 800

SCREEN_HEIGHT == 600

PLAYER_SPEED == 5

BULLET_SPEED == 7

ALIEN_SPEED == 1

ALIEN_DROP == 20

ALIEN_ROWS == 5

ALIEN_COLS == 10

ALIEN_WIDTH == 40

ALIEN_HEIGHT == 30

PLAYER_WIDTH == 50

PLAYER_HEIGHT == 30

BULLET_WIDTH == 3

BULLET_HEIGHT == 10

\* Player.max_bullets
MaxBullets == 2

\* lives = 3
StartLives == 3

\* global_alien_shot_cooldown, alien_move_delay, alien_drop_cooldown (ms)
ShotCooldown == 500

AlienMoveDelay == 50

AlienDropCooldown == 300

\* the two ends of random.randint(2000, 5000)
ShotDelays == {2000, 5000}

\* frames of the shooter game in one run
MaxFrames == 2

\* SPACE presses delivered in one run of the shooter game
MaxSpace == 3

\* frame durations (ms) the shooter game's clock may report
FrameTimes == {17, 60}

(***************************************************************************)
(* Python list helpers                                                     *)
(***************************************************************************)
\* seq[::-1]
Reverse(s) == [i \in 1 .. Len(s) |-> s[Len(s) + 1 - i]]

MinOf(S) == CHOOSE m \in S : \A n \in S : m <= n

\* list(zip(*rows)) with every tuple turned into a list: one row per column
\* of the shortest input row; no input rows give no output rows
Zip(rows) ==
  IF rows = << >> THEN << >>
  ELSE [i \in 1 .. MinOf({Len(rows[r]) : r \in 1 .. Len(rows)}) |->
          [j \in 1 .. Len(rows) |-> rows[j][i]]]

\* del s[i] (Python index i)
DelAt(s, i) == [k \in 1 .. (Len(s) - 1) |-> IF k <= i THEN s[k] ELSE s[k + 1]]

(***************************************************************************)
(* Piece                                                                   *)
(***************************************************************************)
\* Piece.__init__
NewPiece(shape_idx, color_idx) ==
  [shape_idx |-> shape_idx,
   color_idx |-> color_idx,
   x |-> (GRID_WIDTH \div 2) - (Len(SHAPES[shape_idx + 1][1]) \div 2),
   y |-> 0,
   rotation |-> 0]

\* get_random_piece, the random shape index being the parameter
GetRandomPiece(shape_idx) == NewPiece(shape_idx, shape_idx + 1)

\* C1's mutant of RotateCW: the reversed slice loses the first row
RotateCWDropRow(shape) == Zip(Reverse(SubSeq(shape, 2, Len(shape))))

\* one pass of the loop body of get_rotated_shape
RotateCW(shape) == Zip(Reverse(shape))

RECURSIVE RotateTimes(_, _)
RotateTimes(shape, n) ==
  IF n = 0 THEN shape ELSE RotateTimes(RotateCW(shape), n - 1)

\* Piece.get_rotated_shape
GetRotatedShape(piece) ==
  RotateTimes(SHAPES[piece.shape_idx + 1], piece.rotation)

\* the cells a shape matrix occupies when its origin is (px, py): the two
\* enumerate loops of get_cells
ShapeCells(shape, px, py) ==
  UNION {{<<px + (c - 1), py + (r - 1)>> :
            c \in {k \in 1 .. Len(shape[r]) : shape[r][k] # 0}} :
         r \in 1 .. Len(shape)}

\* Piece.get_cells (as a set: the callers do not depend on the order)
GetCells(piece) == ShapeCells(GetRotatedShape(piece), piece.x, piece.y)

(***************************************************************************)
(* Grid functions                                                          *)
(***************************************************************************)
EmptyRow == [x \in 1 .. GRID_WIDTH |-> 0]

\* create_grid
CreateGrid == [y \in 1 .. GRID_HEIGHT |-> EmptyRow]

\* C8's mutant of IsValidPosition: the test of the locked cells is left out
IsValidPositionNoCollision(piece, g) ==
  \A c \in GetCells(piece) :
    ~(c[1] < 0 \/ c[1] >= GRID_WIDTH \/ c[2] >= GRID_HEIGHT)

\* is_valid_position
IsValidPosition(piece, g) ==
  \A c \in GetCells(piece) :
    /\ ~(c[1] < 0 \/ c[1] >= GRID_WIDTH \/ c[2] >= GRID_HEIGHT)
    /\ ~(c[2] >= 0 /\ g[c[2] + 1][c[1] + 1] # 0)

\* C4's mutant of LockPiece: the cell value is one too high
LockPieceOffByOne(piece, g) ==
  LET cells == GetCells(piece) IN
  [y \in 1 .. Len(g) |->
     [x \in 1 .. Len(g[y]) |->
        IF <<x - 1, y - 1>> \in cells THEN piece.color_idx + 1 ELSE g[y][x]]]

\* lock_piece
LockPiece(piece, g) ==
  LET cells == GetCells(piece) IN
  [y \in 1 .. Len(g) |->
     [x \in 1 .. Len(g[y]) |->
        IF /\ <<x - 1, y - 1>> \in cells
           /\ 0 <= y - 1 /\ y - 1 < GRID_HEIGHT
           /\ 0 <= x - 1 /\ x - 1 < GRID_WIDTH
        THEN piece.color_idx
        ELSE g[y][x]]]

\* all(cell != 0 for cell in row)
RowFull(row) == \A x \in 1 .. Len(row) : row[x] # 0

\* C2's mutant of ClearLoop: y is decremented after a removal too
RECURSIVE ClearLoopSkip(_, _, _)
ClearLoopSkip(g, y, n) ==
  IF y >= 0
  THEN IF RowFull(g[y + 1])
       THEN ClearLoopSkip(<<EmptyRow>> \o DelAt(g, y), y - 1, n + 1)
       ELSE ClearLoopSkip(g, y - 1, n)
  ELSE [grid |-> g, lines_cleared |-> n]

\* the while loop of clear_lines: y is the Python row index, n lines_cleared
RECURSIVE ClearLoop(_, _, _)
ClearLoop(g, y, n) ==
  IF y >= 0
  THEN IF RowFull(g[y + 1])
       THEN ClearLoop(<<EmptyRow>> \o DelAt(g, y), y, n + 1)
       ELSE ClearLoop(g, y - 1, n)
  ELSE [grid |-> g, lines_cleared |-> n]

\* clear_lines: the grid it leaves and the number it returns
ClearLines(g) == ClearLoop(g, GRID_HEIGHT - 1, 0)

\* C10's mutant of IsGameOver: the game is over when the top row is used
IsGameOverTopRow(piece, g) == \E x \in 1 .. Len(g[1]) : g[1][x] # 0

\* is_game_over
IsGameOver(piece, g) == ~IsValidPosition(piece, g)

(***************************************************************************)
(* State                                                                   *)
(***************************************************************************)
VARIABLES
  grid,           \* puzzle: the 2D list of locked cells
  current_piece,  \* puzzle: the falling Piece
  next_piece,     \* puzzle: the Piece spawned after the next lock
  fall_time,      \* puzzle: ms accumulated since the last gravity step
  game_over,      \* puzzle: main's game_over flag
  running,        \* puzzle: main's running flag
  pc,             \* puzzle: "loop" inside the while loop, "exit" after it
  lines_cleared,  \* puzzle: what the last clear_lines call returned
  locked_grid,    \* puzzle: the grid as the last lock_piece call left it
  locks,          \* puzzle: pieces locked so far
  keys,           \* puzzle: key events handled so far
  rot,            \* rotation on its own: a piece and the UP presses it took
  clr,            \* clear_lines on its own: a grid, and the call's result
  player,         \* shooter: the Player, its rect.x and its bullets list
  aliens,         \* shooter: the aliens group, alien number |-> Alien
  player_bullets, \* shooter: the player_bullets group, in insertion order
  alien_bullets,  \* shooter: the alien_bullets group, in insertion order
  score,          \* shooter: main's score
  lives,          \* shooter: main's lives
  alien_speed,    \* shooter: main's alien_speed at the end of a frame
  shooter_over,   \* shooter: main's game_over flag
  win,            \* shooter: main's win flag
  ticks,          \* shooter: pygame's millisecond clock after the last frame
  last_alien_shot,
  last_alien_move,
  last_alien_drop,
  frames,         \* shooter: passes of the while loop so far
  presses         \* shooter: SPACE presses handled so far

puzzleVars ==
  <<grid, current_piece, next_piece, fall_time, game_over, running, pc,
    lines_cleared, locked_grid, locks, keys>>

shooterVars ==
  <<player, aliens, player_bullets, alien_bullets, score, lives, alien_speed,
    shooter_over, win, ticks, last_alien_shot, last_alien_move,
    last_alien_drop, frames, presses>>

vars == <<puzzleVars, rot, clr, shooterVars>>

(***************************************************************************)
(* Shooter game: sprites                                                   *)
(***************************************************************************)
\* the aliens are numbered in the order setup_aliens adds them to the group,
\* which is the order the group is iterated in
AlienIds == 1 .. (ALIEN_ROWS * ALIEN_COLS)

AlienRow(a) == (a - 1) \div ALIEN_COLS

AlienCol(a) == (a - 1) % ALIEN_COLS

\* C12's mutant of PlayerStartX: the half width is not taken off
PlayerStartXNoOffset == SCREEN_WIDTH \div 2

\* Player.__init__: rect.x and rect.y
PlayerStartX == (SCREEN_WIDTH \div 2) - (PLAYER_WIDTH \div 2)

\* C13's mutant of PlayerY: the margin of 10 under the player is left out
PlayerYNoMargin == SCREEN_HEIGHT - PLAYER_HEIGHT

PlayerY == SCREEN_HEIGHT - PLAYER_HEIGHT - 10

NewPlayer == [x |-> PlayerStartX, bullets |-> << >>]

\* Alien.__init__, the random shot delay being a parameter
NewAlien(x, y, delay) ==
  [x |-> x, y |-> y, direction |-> 1, last_shot |-> 0, shot_delay |-> delay]

\* setup_aliens
SetupAliens(delay) ==
  [a \in AlienIds |->
     NewAlien(AlienCol(a) * (ALIEN_WIDTH + 10) + 50,
              AlienRow(a) * (ALIEN_HEIGHT + 10) + 50,
              delay)]

\* Bullet.__init__; id tells the Bullet objects apart
NewBullet(id, x, y, direction) ==
  [id |-> id, x |-> x - (BULLET_WIDTH \div 2), y |-> y, direction |-> direction]

\* pygame.Rect.colliderect on (left, top, width, height)
CollideRect(ax, ay, aw, ah, bx, by, bw, bh) ==
  ax < bx + bw /\ bx < ax + aw /\ ay < by + bh /\ by < ay + ah

\* pygame.sprite.collide_rect(bullet, alien), as spritecollideany tests it
BulletHitsAlien(b, al) ==
  CollideRect(b.x, b.y, BULLET_WIDTH, BULLET_HEIGHT,
              al.x, al.y, ALIEN_WIDTH, ALIEN_HEIGHT)

\* pygame.sprite.collide_rect(bullet, player)
BulletHitsPlayer(b, px) ==
  CollideRect(b.x, b.y, BULLET_WIDTH, BULLET_HEIGHT,
              px, PlayerY, PLAYER_WIDTH, PLAYER_HEIGHT)

\* Player.update
PlayerUpdate(x, left, right) ==
  LET x1 == IF left /\ x > 0 THEN x - PLAYER_SPEED ELSE x IN
  IF right /\ x1 + PLAYER_WIDTH < SCREEN_WIDTH THEN x1 + PLAYER_SPEED ELSE x1

\* Bullet.update: the move, and the test that kills the bullet
BulletMoved(b) == [b EXCEPT !.y = @ + BULLET_SPEED * b.direction]

OffScreen(b) == b.y + BULLET_HEIGHT < 0 \/ b.y > SCREEN_HEIGHT

OnScreen(b) == ~OffScreen(b)

MovedAll(bs) == [i \in 1 .. Len(bs) |-> BulletMoved(bs[i])]

\* list.remove(v) guarded by "if v in list"
RemoveIfIn(s, v) ==
  IF \E i \in 1 .. Len(s) : s[i] = v
  THEN DelAt(s, MinOf({i \in 1 .. Len(s) : s[i] = v}) - 1)
  ELSE s

\* C6's mutant of DropKilled: a bullet that leaves the screen keeps its slot
DropKilledNone(list, moved) == list

\* lines 215-219: every bullet the update killed leaves player.bullets
RECURSIVE DropKilled(_, _)
DropKilled(list, moved) ==
  IF moved = << >> THEN list
  ELSE DropKilled(IF OffScreen(Head(moved)) THEN RemoveIfIn(list, Head(moved).id)
                  ELSE list,
                  Tail(moved))

\* "if alien.rect.left <= 0 or alien.rect.right >= SCREEN_WIDTH"
AlienAtEdge(al) == al.x <= 0 \/ al.x + ALIEN_WIDTH >= SCREEN_WIDTH

\* C15's mutant of AliensMoved: the cooldown of the drop is not tested
AliensMovedNoCooldown(als, speed, now, lastDrop) ==
  LET needDrop == \E a \in DOMAIN als : AlienAtEdge(als[a])
      moved == [a \in DOMAIN als |->
                  [als[a] EXCEPT !.x = @ + speed * als[a].direction]]
  IN [aliens |-> IF needDrop
                 THEN [a \in DOMAIN als |->
                         [moved[a] EXCEPT !.direction = -@, !.y = @ + ALIEN_DROP]]
                 ELSE moved,
      dropped |-> needDrop]

\* lines 224-247: the aliens after the move of a tick at time now, and
\* whether the swarm dropped
AliensMoved(als, speed, now, lastDrop) ==
  LET needDrop == \E a \in DOMAIN als : AlienAtEdge(als[a])
      moved == [a \in DOMAIN als |->
                  [als[a] EXCEPT !.x = @ + speed * als[a].direction]]
      drop == needDrop /\ now - lastDrop > AlienDropCooldown
  IN [aliens |-> IF drop
                 THEN [a \in DOMAIN als |->
                         [moved[a] EXCEPT !.direction = -@, !.y = @ + ALIEN_DROP]]
                 ELSE moved,
      dropped |-> drop]

\* Alien.should_shoot's test
ShotDue(al, now) == now - al.last_shot > al.shot_delay

\* "alien == max(column_aliens, key=lambda a: a.rect.y)": max returns the
\* first of the lowest aliens
BottomOfColumn(als, a) ==
  LET column == {b \in DOMAIN als : als[b].x = als[a].x}
      lowest == {b \in column : \A c \in column : als[c].y <= als[b].y}
  IN a = MinOf(lowest)

\* check_collisions, first loop: player bullets hitting aliens.  st holds
\* the aliens, the player_bullets group, player.bullets and the score
RECURSIVE HitAliens(_, _)
HitAliens(todo, st) ==
  IF todo = << >> THEN st
  ELSE LET b == Head(todo)
           hit == {a \in DOMAIN st.aliens : BulletHitsAlien(b, st.aliens[a])}
       IN IF hit # {}
          THEN HitAliens(Tail(todo),
                 [aliens |-> [a \in DOMAIN st.aliens \ {MinOf(hit)} |-> st.aliens[a]],
                  group |-> SelectSeq(st.group, LAMBDA g : g.id # b.id),
                  bullets |-> RemoveIfIn(st.bullets, b.id),
                  score |-> st.score + 10])
          ELSE HitAliens(Tail(todo), st)

\* check_collisions, second loop: the first alien bullet that hits the
\* player is killed and the function returns
HitPlayer(group, px) ==
  LET hits == {i \in 1 .. Len(group) : BulletHitsPlayer(group[i], px)} IN
  IF hits # {}
  THEN [group |-> DelAt(group, MinOf(hits) - 1), player_hit |-> TRUE]
  ELSE [group |-> group, player_hit |-> FALSE]

(***************************************************************************)
(* Shooter game: main                                                      *)
(***************************************************************************)
\* main, up to the while loop; d is the shot delay the aliens drew
ShooterStart(d) ==
  /\ player = NewPlayer
  /\ aliens = SetupAliens(d)
  /\ player_bullets = << >>
  /\ alien_bullets = << >>
  /\ score = 0
  /\ lives = StartLives
  /\ alien_speed = ALIEN_SPEED
  /\ shooter_over = FALSE
  /\ win = FALSE
  /\ ticks = 0
  /\ last_alien_shot = 0
  /\ last_alien_move = 0
  /\ last_alien_drop = 0
  /\ frames = 0
  /\ presses = 0

\* "alien_speed = ALIEN_SPEED + (ALIEN_ROWS * ALIEN_COLS - len(aliens)) // 10"
SpeedFor(n) == ALIEN_SPEED + ((ALIEN_ROWS * ALIEN_COLS - n) \div 10)

\* A game in progress, at the end of a frame at time 100000: the swarm has
\* dropped 15 times, moves left and is shifted dx from its first place; the
\* aliens outside alive are shot; the aliens in due have not shot for long;
\* the last move was in this frame, the last drop dropAgo ms before it
MidGame(alive, dx, px, lv, pbs, abs, due, dropAgo) ==
  /\ player = [x |-> px, bullets |-> [i \in 1 .. Len(pbs) |-> pbs[i].id]]
  /\ aliens = [a \in alive |->
                 [SetupAliens(5000)[a] EXCEPT
                    !.x = @ + dx,
                    !.y = @ + 15 * ALIEN_DROP,
                    !.direction = -1,
                    !.last_shot = IF a \in due THEN 100000 - 6000 ELSE 100000]]
  /\ player_bullets = pbs
  /\ alien_bullets = abs
  /\ score = 10 * (ALIEN_ROWS * ALIEN_COLS - Cardinality(alive))
  /\ lives = lv
  /\ alien_speed = SpeedFor(Cardinality(alive))
  /\ shooter_over = FALSE
  /\ win = FALSE
  /\ ticks = 100000
  /\ last_alien_shot = 100000 - 1000
  /\ last_alien_move = 100000
  /\ last_alien_drop = 100000 - dropAgo
  /\ frames = 0
  /\ presses = 0

\* a player bullet fired from the centre two frames ago, and one fired from
\* the right wall that has passed beside the swarm and is about to leave
RisingBullet == [id |-> 2, x |-> 399, y |-> 546, direction |-> -1]

LeavingBullet == [id |-> 1, x |-> 774, y |-> -7, direction |-> -1]

\* alien bullets: one fired a frame ago by the bottom alien of column 7, one
\* fired seven frames ago by the row 3 alien of column 6, and one that has
\* passed the player and is about to leave
FreshBullet == [id |-> 0, x |-> 390, y |-> 547, direction |-> 1]

OlderBullet == [id |-> 0, x |-> 346, y |-> 549, direction |-> 1]

FallenBullet == [id |-> 0, x |-> 497, y |-> 596, direction |-> 1]

\* the states a run of the shooter starts from: the state main constructs,
\* and games in progress with the swarm close to the player
ShooterInit ==
  \/ \E d \in ShotDelays : ShooterStart(d)
  \/ \E alive \in {AlienIds, AlienIds \ {48}, {48}}, dx \in {-50, -30},
        pbs \in {<< >>, <<RisingBullet>>, <<LeavingBullet, RisingBullet>>} :
       MidGame(alive, dx, PlayerStartX, StartLives, pbs, << >>, {}, 5000)
  \/ \E px \in {PlayerStartX, PlayerStartX - 30}, lv \in {1, StartLives},
        abs \in {<<FreshBullet>>, <<OlderBullet, FreshBullet>>, <<FallenBullet>>} :
       MidGame(AlienIds \ {47}, -30, px, lv, << >>, abs, {}, 5000)
  \/ \E alive \in {AlienIds, {48}}, dx \in {-50, -30},
        due \in {{38, 48}, {47, 48}}, dropAgo \in {200, 250, 5000} :
       MidGame(alive, dx, PlayerStartX, StartLives, << >>, << >>,
               due \cap alive, dropAgo)

\* the shooter is not running in the runs of the other specifications: no
\* alien is on the screen and no shooter action is enabled
ShooterIdle ==
  /\ player = NewPlayer
  /\ aliens = << >>
  /\ player_bullets = << >>
  /\ alien_bullets = << >>
  /\ score = 0
  /\ lives = StartLives
  /\ alien_speed = ALIEN_SPEED
  /\ shooter_over = FALSE
  /\ win = FALSE
  /\ ticks = 0
  /\ last_alien_shot = 0
  /\ last_alien_move = 0
  /\ last_alien_drop = 0
  /\ frames = MaxFrames
  /\ presses = 0

\* C14's mutant of ShooterActive: the test of win is left out
ShooterActiveNotOver == ~shooter_over

\* "if not game_over and not win:"
ShooterActive == ~shooter_over /\ ~win

\* the smallest number no Bullet of the player bears
FreeId ==
  MinOf((1 .. (Len(player.bullets) + Len(player_bullets) + 1))
        \ ({player.bullets[i] : i \in 1 .. Len(player.bullets)}
           \cup {player_bullets[i].id : i \in 1 .. Len(player_bullets)}))

\* the K_SPACE event: Player.shoot, and the bullet joins player_bullets
Space ==
  /\ frames < MaxFrames
  /\ presses < MaxSpace
  /\ presses' = presses + 1
  /\ IF ShooterActive /\ Len(player.bullets) < MaxBullets
     THEN LET bullet == NewBullet(FreeId, player.x + (PLAYER_WIDTH \div 2),
                                  PlayerY, -1)
          IN /\ player' = [player EXCEPT !.bullets = Append(@, bullet.id)]
             /\ player_bullets' = Append(player_bullets, bullet)
     ELSE UNCHANGED <<player, player_bullets>>
  /\ UNCHANGED <<aliens, alien_bullets, score, lives, alien_speed,
                 shooter_over, win, ticks, last_alien_shot, last_alien_move,
                 last_alien_drop, frames>>
  /\ UNCHANGED <<puzzleVars, rot, clr>>

\* lines 224-247: the aliens after the timed move, if it is due at now
Marched(now) ==
  IF now - last_alien_move > AlienMoveDelay
  THEN AliensMoved(aliens, alien_speed, now, last_alien_drop)
  ELSE [aliens |-> aliens, dropped |-> FALSE]

\* lines 250-254: the aliens whose should_shoot answers true at now
DueAliens(als, now) ==
  IF now - last_alien_shot > ShotCooldown
  THEN {a \in DOMAIN als : ShotDue(als[a], now)}
  ELSE {}

\* lines 255-258: shooting_aliens
ShootingAliens(als, due) == {a \in due : BottomOfColumn(als, a)}

\* one pass of the while loop after its events (lines 209-289) at time now,
\* with the keys left and right held or not; redraw gives the shot delay
\* each due alien draws, and shooter is random.choice's pick, 0 when
\* shooting_aliens is empty.  The result is the state the pass leaves
FrameAt(now, left, right, redraw, shooter) ==
  LET px1 == PlayerUpdate(player.x, left, right)
      pmoved == MovedAll(player_bullets)
      pgroup == SelectSeq(pmoved, OnScreen)
      plist == DropKilled(player.bullets, pmoved)
      agroup == SelectSeq(MovedAll(alien_bullets), OnScreen)
      tick == now - last_alien_move > AlienMoveDelay
      mv == Marched(now)
      aliens2 == [a \in DOMAIN mv.aliens |->
                    IF a \in DOMAIN redraw
                    THEN [mv.aliens[a] EXCEPT !.last_shot = now,
                                              !.shot_delay = redraw[a]]
                    ELSE mv.aliens[a]]
      agroup2 == IF shooter = 0 THEN agroup
                 ELSE Append(agroup,
                        NewBullet(0, aliens2[shooter].x + (ALIEN_WIDTH \div 2),
                                  aliens2[shooter].y + ALIEN_HEIGHT, 1))
      shot == HitAliens(pgroup, [aliens |-> aliens2, group |-> pgroup,
                                 bullets |-> plist, score |-> score])
      struck == HitPlayer(agroup2, px1)
      lives1 == IF struck.player_hit THEN lives - 1 ELSE lives
      fatal == struck.player_hit /\ lives1 <= 0
      reset == struck.player_hit /\ ~fatal
      reached == \E a \in DOMAIN shot.aliens :
                   shot.aliens[a].y + ALIEN_HEIGHT >= PlayerY
  IN [player |-> [x |-> IF reset THEN PlayerStartX ELSE px1,
                  bullets |-> shot.bullets],
      aliens |-> shot.aliens,
      player_bullets |-> shot.group,
      alien_bullets |-> struck.group,
      score |-> shot.score,
      lives |-> lives1,
      shooter_over |-> (fatal \/ reached),
      win |-> (DOMAIN shot.aliens = {}),
      alien_speed |-> SpeedFor(Cardinality(DOMAIN shot.aliens)),
      last_alien_move |-> IF tick THEN now ELSE last_alien_move,
      last_alien_drop |-> IF mv.dropped THEN now ELSE last_alien_drop,
      last_alien_shot |-> IF shooter = 0 THEN last_alien_shot ELSE now,
      \* pygame.time.wait(1000) after a hit that is not fatal
      ticks |-> IF reset THEN now + 1000 ELSE now]

\* a pass of the while loop: the clock is read, and the game is updated
\* unless it is over or won
Frame ==
  /\ frames < MaxFrames
  /\ frames' = frames + 1
  /\ \E delta \in FrameTimes :
       IF ShooterActive
       THEN \E left \in BOOLEAN, right \in BOOLEAN :
            \E als \in {Marched(ticks + delta).aliens} :
            \E due \in {DueAliens(als, ticks + delta)} :
            \E redraw \in [due -> ShotDelays] :
            \E shooter \in IF ShootingAliens(als, due) = {} THEN {0}
                           ELSE ShootingAliens(als, due) :
            \E end \in {FrameAt(ticks + delta, left, right, redraw, shooter)} :
              /\ player' = end.player
              /\ aliens' = end.aliens
              /\ player_bullets' = end.player_bullets
              /\ alien_bullets' = end.alien_bullets
              /\ score' = end.score
              /\ lives' = end.lives
              /\ shooter_over' = end.shooter_over
              /\ win' = end.win
              /\ alien_speed' = end.alien_speed
              /\ last_alien_move' = end.last_alien_move
              /\ last_alien_drop' = end.last_alien_drop
              /\ last_alien_shot' = end.last_alien_shot
              /\ ticks' = end.ticks
       ELSE /\ ticks' = ticks + delta
            /\ UNCHANGED <<player, aliens, player_bullets, alien_bullets,
                           score, lives, alien_speed, shooter_over, win,
                           last_alien_shot, last_alien_move, last_alien_drop>>
  /\ UNCHANGED <<presses, puzzleVars, rot, clr>>

(***************************************************************************)
(* Puzzle game: main                                                       *)
(***************************************************************************)
\* a stack the game can build out of upright I pieces: every column but
\* column 3 is filled from row 4 down, so no row is complete
WellRow == [x \in 1 .. GRID_WIDTH |-> IF x = 4 THEN 0 ELSE 1]

WellGrid == [y \in 1 .. GRID_HEIGHT |-> IF y > 4 THEN WellRow ELSE EmptyRow]

\* the grids a run starts from: the grid main creates, and the stack
StartGrids == {CreateGrid, WellGrid}

PuzzleIdle ==
  /\ grid = CreateGrid
  /\ current_piece = GetRandomPiece(0)
  /\ next_piece = GetRandomPiece(0)
  /\ fall_time = 0
  /\ game_over = FALSE
  /\ running = TRUE
  /\ pc = "exit"
  /\ lines_cleared = 0
  /\ locked_grid = CreateGrid
  /\ locks = 0
  /\ keys = 0

RotIdle == rot = [piece |-> GetRandomPiece(0), presses |-> 0,
                  shape |-> SHAPES[1], shape0 |-> SHAPES[1], cells0 |-> {}]

ClrIdle == clr = [input |-> CreateGrid, output |-> CreateGrid,
                  returned |-> 0, called |-> FALSE]

\* main, up to the while loop
PuzzleInit ==
  /\ grid \in StartGrids
  /\ \E s \in ShapeIdxs : current_piece = GetRandomPiece(s)
  /\ \E s \in ShapeIdxs : next_piece = GetRandomPiece(s)
  /\ fall_time = 0
  /\ game_over = FALSE
  /\ running = TRUE
  /\ pc = "loop"
  /\ lines_cleared = 0
  /\ locked_grid = grid
  /\ locks = 0
  /\ keys = 0

\* the model stops delivering input once its bounds are used up
InPlay == pc = "loop" /\ (game_over \/ locks < MaxLocks)

\* "if not game_over:" around the key handling
HandlesKeys == ~game_over

\* C7's mutant of AppliesGravity: the test of game_over is left out
AppliesGravityAlways == TRUE

\* "if not game_over:" around the automatic falling
AppliesGravity == ~game_over

\* rotation = (rotation + 1) % 4
NextRotation(r) == (r + 1) % 4

\* rotation = (rotation - 1) % 4
PrevRotation(r) == (r - 1) % 4

\* the four attempted mutations of the KEYDOWN branches
MovedLeft(piece) == [piece EXCEPT !.x = @ - 1]

MovedRight(piece) == [piece EXCEPT !.x = @ + 1]

MovedDown(piece) == [piece EXCEPT !.y = @ + 1]

Rotated(piece) == [piece EXCEPT !.rotation = NextRotation(@)]

\* the gravity step finds the piece resting: it is moved back and locked,
\* lines are cleared, the next piece is spawned and tested for game over
LockAndSpawn ==
  /\ locks' = locks + 1
  /\ locked_grid' = LockPiece(current_piece, grid)
  /\ LET cleared == ClearLines(locked_grid') IN
       /\ grid' = cleared.grid
       /\ lines_cleared' = cleared.lines_cleared
  /\ current_piece' = next_piece
  /\ \E s \in ShapeIdxs : next_piece' = GetRandomPiece(s)
  /\ game_over' = IF IsGameOver(current_piece', grid') THEN TRUE ELSE game_over

\* a KEYDOWN event: the piece is changed, and changed back when the new
\* position is not valid
KeyEvent(moved, back) ==
  /\ InPlay
  /\ IF HandlesKeys
     THEN /\ keys < MaxKeys
          /\ keys' = keys + 1
          /\ current_piece' = IF IsValidPosition(moved, grid) THEN moved ELSE back
     ELSE UNCHANGED <<current_piece, keys>>
  /\ UNCHANGED <<grid, next_piece, fall_time, game_over, running, pc,
                 lines_cleared, locked_grid, locks, rot, clr, shooterVars>>

\* C3's mutant of KeyLeft: a rejected move is not taken back
KeyLeftNoRevert ==
  KeyEvent(MovedLeft(current_piece), MovedLeft(current_piece))

\* K_LEFT
KeyLeft ==
  KeyEvent(MovedLeft(current_piece),
           [MovedLeft(current_piece) EXCEPT !.x = @ + 1])

\* K_RIGHT
KeyRight ==
  KeyEvent(MovedRight(current_piece),
           [MovedRight(current_piece) EXCEPT !.x = @ - 1])

\* C9's mutant of KeyDown: a DOWN press on a resting piece locks it
KeyDownLocks ==
  /\ InPlay
  /\ HandlesKeys
  /\ keys < MaxKeys
  /\ keys' = keys + 1
  /\ IF IsValidPosition(MovedDown(current_piece), grid)
     THEN /\ current_piece' = MovedDown(current_piece)
          /\ UNCHANGED <<grid, next_piece, game_over, lines_cleared,
                         locked_grid, locks>>
     ELSE LockAndSpawn
  /\ UNCHANGED <<fall_time, running, pc, rot, clr, shooterVars>>

\* K_DOWN
KeyDown ==
  KeyEvent(MovedDown(current_piece),
           [MovedDown(current_piece) EXCEPT !.y = @ - 1])

\* K_UP
KeyUp ==
  KeyEvent(Rotated(current_piece),
           [Rotated(current_piece) EXCEPT !.rotation = PrevRotation(@)])

\* the QUIT event
Quit ==
  /\ pc = "loop"
  /\ running
  /\ running' = FALSE
  /\ UNCHANGED <<grid, current_piece, next_piece, fall_time, game_over, pc,
                 lines_cleared, locked_grid, locks, keys, rot, clr, shooterVars>>

\* the rest of one pass of the while loop after the events: gravity, then
\* the loop test
Update ==
  /\ InPlay
  /\ pc' = IF running THEN "loop" ELSE "exit"
  /\ IF AppliesGravity
     THEN \E delta \in Deltas :
            IF fall_time + delta >= FallSpeedMs
            THEN /\ fall_time' = 0
                 /\ IF IsValidPosition(MovedDown(current_piece), grid)
                    THEN /\ current_piece' = MovedDown(current_piece)
                         /\ UNCHANGED <<grid, next_piece, game_over,
                                        lines_cleared, locked_grid, locks>>
                    ELSE LockAndSpawn
            ELSE /\ fall_time' = fall_time + delta
                 /\ UNCHANGED <<grid, current_piece, next_piece, game_over,
                                lines_cleared, locked_grid, locks>>
     ELSE UNCHANGED <<grid, current_piece, next_piece, fall_time, game_over,
                      lines_cleared, locked_grid, locks>>
  /\ UNCHANGED <<running, keys, rot, clr, shooterVars>>

Init == PuzzleInit /\ RotIdle /\ ClrIdle /\ ShooterIdle

Next == KeyLeft \/ KeyRight \/ KeyDown \/ KeyUp \/ Quit \/ Update

Spec == Init /\ [][Next]_vars

(***************************************************************************)
(* Puzzle game with key events that are not counted: the player may press  *)
(* keys for ever, and the clock keeps advancing                            *)
(***************************************************************************)
\* a KEYDOWN event as in KeyEvent, in a run that does not count them
FreeKeyEvent(moved, back) ==
  /\ pc = "loop"
  /\ locks < MaxLocks
  /\ HandlesKeys
  /\ current_piece' = IF IsValidPosition(moved, grid) THEN moved ELSE back
  /\ UNCHANGED <<grid, next_piece, fall_time, game_over, running, pc,
                 lines_cleared, locked_grid, locks, keys, rot, clr, shooterVars>>

\* K_LEFT
FreeLeft ==
  FreeKeyEvent(MovedLeft(current_piece),
               [MovedLeft(current_piece) EXCEPT !.x = @ + 1])

\* K_RIGHT
FreeRight ==
  FreeKeyEvent(MovedRight(current_piece),
               [MovedRight(current_piece) EXCEPT !.x = @ - 1])

\* K_DOWN
FreeDown ==
  FreeKeyEvent(MovedDown(current_piece),
               [MovedDown(current_piece) EXCEPT !.y = @ - 1])

\* C11's mutant of FreeUp: the revert of K_DOWN was copied into K_UP
FreeUpLifts ==
  FreeKeyEvent(Rotated(current_piece),
               [Rotated(current_piece) EXCEPT !.y = @ - 1])

\* K_UP
FreeUp ==
  FreeKeyEvent(Rotated(current_piece),
               [Rotated(current_piece) EXCEPT !.rotation = PrevRotation(@)])

NextLive == FreeLeft \/ FreeRight \/ FreeDown \/ FreeUp \/ Update

\* a pass of the loop changes the state: the game is on, so the gravity code
\* adds to fall_time, moves the piece or locks it.  This is what
\* ENABLED <<Update>>_vars comes to
PassEnabled == InPlay /\ ~game_over

\* the loop keeps running: weak fairness of Update, written out with
\* PassEnabled for ENABLED <<Update>>_vars
LoopGoesOn == []<>(~PassEnabled) \/ []<><<Update>>_vars

SpecLive == Init /\ [][NextLive]_vars /\ LoopGoesOn

\* the shooter game alone
InitShooter == PuzzleIdle /\ RotIdle /\ ClrIdle /\ ShooterInit

NextShooter == Space \/ Frame

SpecShooter == InitShooter /\ [][NextShooter]_vars

(***************************************************************************)
(* Rotation on its own: a piece of any shape at any origin takes UP        *)
(* presses that are all accepted                                           *)
(***************************************************************************)
\* UP presses one piece takes
MaxPresses == 4

RotInit ==
  \E s \in ShapeIdxs, x \in 0 .. (GRID_WIDTH - 1), y \in 0 .. (GRID_HEIGHT - 1),
     r \in 0 .. 3 :
    LET piece == [GetRandomPiece(s) EXCEPT !.x = x, !.y = y, !.rotation = r] IN
    rot = [piece |-> piece, presses |-> 0,
           shape |-> GetRotatedShape(piece),
           shape0 |-> GetRotatedShape(piece),
           cells0 |-> GetCells(piece)]

\* an accepted UP press; shape follows the matrix through the rotation steps
RotPress ==
  /\ rot.presses < MaxPresses
  /\ rot' = [rot EXCEPT !.piece = Rotated(@),
                        !.presses = @ + 1,
                        !.shape = RotateCW(@)]
  /\ UNCHANGED <<puzzleVars, clr, shooterVars>>

InitRotate == PuzzleIdle /\ RotInit /\ ClrIdle /\ ShooterIdle

SpecRotate == InitRotate /\ [][RotPress]_vars

(***************************************************************************)
(* clear_lines on its own: one call on a grid holding a stack of rows      *)
(***************************************************************************)
FullRow == [x \in 1 .. GRID_WIDTH |-> 2]

HalfRow == [x \in 1 .. GRID_WIDTH |-> IF x <= 5 THEN 3 ELSE 0]

RowPatterns == {EmptyRow, FullRow, WellRow, HalfRow}

\* empty rows above a stack of at most MaxStack rows
TestGrids ==
  UNION {{[y \in 1 .. GRID_HEIGHT |->
             IF y <= GRID_HEIGHT - h THEN EmptyRow ELSE st[y - (GRID_HEIGHT - h)]] :
            st \in [1 .. h -> RowPatterns]} :
         h \in 0 .. MaxStack}

ClrInit ==
  \E g \in TestGrids :
    clr = [input |-> g, output |-> g, returned |-> 0, called |-> FALSE]

ClrCall ==
  /\ ~clr.called
  /\ LET cleared == ClearLines(clr.input) IN
       clr' = [clr EXCEPT !.output = cleared.grid,
                          !.returned = cleared.lines_cleared,
                          !.called = TRUE]
  /\ UNCHANGED <<puzzleVars, rot, shooterVars>>

InitClear == PuzzleIdle /\ RotIdle /\ ClrInit /\ ShooterIdle

SpecClear == InitClear /\ [][ClrCall]_vars

(***************************************************************************)
(* Claims: puzzle game                                                     *)
(***************************************************************************)
\* C1: four accepted UP presses bring every shape, at every origin, back to
\* the matrix it started from, and the piece back to the cells it occupied
C1_FourRotationsIdentity ==
  rot.presses = 4 =>
    /\ rot.shape = rot.shape0
    /\ ShapeCells(rot.shape, rot.piece.x, rot.piece.y) = rot.cells0
    /\ GetCells(rot.piece) = rot.cells0

\* a piece that is not square has taken its four presses
C1_Witness ==
  /\ rot.presses = 4
  /\ rot.piece.shape_idx = 2
  /\ Cardinality(rot.cells0) = 4

HasEmptyCell(row) == \E x \in 1 .. Len(row) : row[x] = 0

AllEmpty(row) == \A x \in 1 .. Len(row) : row[x] = 0

FullRowsOf(g) == {y \in 1 .. Len(g) : ~HasEmptyCell(g[y])}

\* C2: clear_lines leaves 20 rows of 10 cells and no full row; the top k
\* rows are empty, k being the number of full rows before the call; the
\* rows that were not full follow in their order, unchanged; k is returned
C2_ClearLinesCompacts ==
  clr.called =>
    LET k == Cardinality(FullRowsOf(clr.input)) IN
    /\ Len(clr.output) = 20
    /\ \A y \in 1 .. Len(clr.output) : Len(clr.output[y]) = 10
    /\ FullRowsOf(clr.output) = {}
    /\ \A y \in 1 .. k : AllEmpty(clr.output[y])
    /\ SubSeq(clr.output, k + 1, 20) = SelectSeq(clr.input, HasEmptyCell)
    /\ clr.returned = k

\* the call removed two full rows that had a row that stays between them
C2_Witness ==
  /\ clr.called
  /\ clr.returned = 2
  /\ clr.input[18] = FullRow /\ clr.input[19] = HalfRow /\ clr.input[20] = FullRow

\* the claim's words for a position that is not valid
Blocked(piece) ==
  \E c \in GetCells(piece) :
    \/ c[1] < 0 \/ c[1] > 9
    \/ c[2] > 19
    \/ (c[2] >= 0 /\ grid[c[2] + 1][c[1] + 1] # 0)

PieceAndGridKept == current_piece' = current_piece /\ grid' = grid

\* C3: a LEFT, RIGHT, DOWN or UP key event whose attempted position is not
\* valid leaves the piece's x, y and rotation and the grid as they were
C3_RejectedMoveReverts ==
  [][/\ (KeyLeft /\ ~game_over /\ Blocked(MovedLeft(current_piece)))
          => PieceAndGridKept
     /\ (KeyRight /\ ~game_over /\ Blocked(MovedRight(current_piece)))
          => PieceAndGridKept
     /\ (KeyDown /\ ~game_over /\ Blocked(MovedDown(current_piece)))
          => PieceAndGridKept
     /\ (KeyUp /\ ~game_over /\ Blocked(Rotated(current_piece)))
          => PieceAndGridKept]_vars

\* an I piece that has come from rotation 3 back to rotation 3 inside the
\* well after four key events: three accepted UP presses and a rejected one
C3_Witness ==
  /\ grid = WellGrid
  /\ keys = 4
  /\ current_piece.shape_idx = 0
  /\ current_piece.rotation = 3
  /\ current_piece.x = 3
  /\ current_piece.y = 4
  /\ Blocked(Rotated(current_piece))

GridWellFormed(g) ==
  /\ Len(g) = 20
  /\ \A y \in 1 .. Len(g) :
       /\ Len(g[y]) = 10
       /\ \A x \in 1 .. Len(g[y]) : g[y][x] \in 0 .. 7

\* C4: the grid always has 20 rows of 10 cells, each cell in 0..7, also
\* between the lock and the line clear
C4_GridShape == GridWellFormed(grid) /\ GridWellFormed(locked_grid)

\* an upright I piece has been locked in the well and four lines cleared
C4_Witness == locks > 0 /\ lines_cleared = 4 /\ grid # locked_grid

\* C7: once game_over is true it stays true, and no step changes the grid,
\* the pieces or the clock; only running (and the loop's end) still changes
C7_GameOverTerminal ==
  [][game_over =>
       /\ game_over'
       /\ UNCHANGED <<grid, current_piece, next_piece, fall_time,
                      lines_cleared, locked_grid, locks>>]_vars

\* the game ended, keys and frames went on, and then the window was closed
C7_Witness == game_over /\ pc = "exit" /\ keys < MaxKeys

\* C8: while game_over is false every cell of the current piece is inside
\* columns 0..9 and rows 0..19 and on an empty grid cell
C8_PieceValid ==
  ~game_over =>
    /\ Cardinality(GetCells(current_piece)) = 4
    /\ \A c \in GetCells(current_piece) :
         /\ c[1] \in 0 .. 9
         /\ c[2] \in 0 .. 19
         /\ grid[c[2] + 1][c[1] + 1] = 0

\* a piece spawned after a lock sits right above the stack, not game over
C8_Witness ==
  /\ ~game_over
  /\ locks = 1
  /\ Blocked(MovedDown(current_piece))

\* C9: no key event changes the grid or locks a piece; a lock happens in a
\* gravity step in which the row below is not valid, writes shape_idx + 1
\* into the piece's four cells, which were empty, and nothing else
C9_LockOnlyByGravity ==
  [][/\ (KeyLeft \/ KeyRight \/ KeyDown \/ KeyUp)
          => (grid' = grid /\ locks' = locks /\ locked_grid' = locked_grid)
     /\ (grid' # grid \/ locked_grid' # locked_grid) => locks' = locks + 1
     /\ locks' # locks =>
          LET cells == GetCells(current_piece) IN
          /\ fall_time' = 0
          /\ Blocked(MovedDown(current_piece))
          /\ Cardinality(cells) = 4
          /\ \A c \in cells :
               /\ grid[c[2] + 1][c[1] + 1] = 0
               /\ locked_grid'[c[2] + 1][c[1] + 1] = current_piece.shape_idx + 1
          /\ {<<x - 1, y - 1>> : <<x, y>> \in
                {xy \in (1 .. 10) \X (1 .. 20) :
                   locked_grid'[xy[2]][xy[1]] # grid[xy[2]][xy[1]]}} = cells]_vars

\* a piece moved to the left wall was locked on top of the stack
C9_Witness ==
  /\ locks = 1
  /\ lines_cleared = 0
  /\ locked_grid[5] = WellRow
  /\ locked_grid[4][1] # 0

SpawnOverlaps(piece, g) ==
  \E c \in GetCells(piece) : c[2] >= 0 /\ g[c[2] + 1][c[1] + 1] # 0

\* C10: a lock makes the previous next_piece the current piece at y = 0,
\* rotation 0, x = 5 - width // 2; game_over becomes true in that step iff
\* the spawned piece overlaps a locked cell, and in no other step
C10_SpawnAndGameOver ==
  [][/\ locks' # locks =>
          /\ current_piece' = next_piece
          /\ current_piece'.y = 0
          /\ current_piece'.rotation = 0
          /\ current_piece'.x =
               5 - (Len(SHAPES[current_piece'.shape_idx + 1][1]) \div 2)
          /\ game_over' <=> SpawnOverlaps(current_piece', grid')
     /\ game_over' # game_over => locks' # locks]_vars

\* a lock ended the game: the spawned piece overlaps a locked cell
C10_Witness ==
  /\ game_over
  /\ locks = 1
  /\ SpawnOverlaps(current_piece, grid)

(***************************************************************************)
(* Claims: shooter game                                                    *)
(***************************************************************************)
\* a bullet that is off-screen, or that overlaps its target
StalePlayerBullet(b) ==
  OffScreen(b) \/ \E a \in DOMAIN aliens : BulletHitsAlien(b, aliens[a])

StaleAlienBullet(b) == OffScreen(b) \/ BulletHitsPlayer(b, player.x)

NoStaleBullet ==
  /\ \A i \in 1 .. Len(player_bullets) : ~StalePlayerBullet(player_bullets[i])
  /\ \A i \in 1 .. Len(alien_bullets) : ~StaleAlienBullet(alien_bullets[i])

\* C5: every bullet is removed in the frame in which it leaves the screen or
\* collides with its target: at the end of a frame that began with the game
\* active, no bullet that is off-screen or overlaps its target (an alien for
\* a player bullet, the player for an alien bullet) is left in its group.
C5_BulletsRemoved == [][(Frame /\ ShooterActive) => NoStaleBullet']_vars

\* the ids of the bullets of a group
BulletIds(group) == {group[i].id : i \in 1 .. Len(group)}

SlotsMatchGroup ==
  /\ Len(player.bullets) = Len(player_bullets)
  /\ {player.bullets[i] : i \in 1 .. Len(player.bullets)} = BulletIds(player_bullets)

AliensAndSlots ==
  /\ Cardinality(DOMAIN aliens) <= ALIEN_ROWS * ALIEN_COLS
  /\ Len(player_bullets) <= 2
  /\ SlotsMatchGroup

\* C6: the game starts with 50 aliens and their number never increases; at
\* most 2 player bullets are in play; a SPACE press while 2 are in play
\* creates no bullet; and player.bullets holds exactly the bullets of the
\* player_bullets group before and after every step.
C6_AliensAndBulletSlots ==
  [][/\ AliensAndSlots
     /\ AliensAndSlots'
     /\ (ticks = 0 /\ frames = 0 => Cardinality(DOMAIN aliens) = 50)
     /\ DOMAIN aliens' \subseteq DOMAIN aliens
     /\ (Space /\ Len(player_bullets) = 2
           => player_bullets' = player_bullets /\ player' = player)]_vars

\* SPACE was pressed three times before the first frame of a new game: the
\* third press found 2 bullets in play
C6_Witness ==
  /\ frames = 0
  /\ presses = 3
  /\ Len(player_bullets) = 2
  /\ Cardinality(DOMAIN aliens) = 50

(***************************************************************************)
(* Claims: puzzle game, progress                                           *)
(***************************************************************************)
\* a pass of the loop whose gravity code moved or locked the piece
GravityStep == Update /\ ~game_over /\ fall_time' = 0

\* C11: key presses cannot postpone locking for ever.  While a piece falls
\* its y never decreases; every gravity step moves it down one row or locks
\* it; and, the loop passes going on, every piece in play is eventually
\* locked or the game is over.
C11_LockingNotPostponed ==
  /\ [][locks' = locks => current_piece'.y >= current_piece.y]_vars
  /\ [][GravityStep =>
          \/ locks' = locks + 1
          \/ /\ locks' = locks
             /\ current_piece' = [current_piece EXCEPT !.y = @ + 1]]_vars
  /\ \A n \in 0 .. (MaxLocks - 1) :
       (locks = n /\ ~game_over) ~> (locks = n + 1 \/ game_over)

\* an O piece was taken to the right wall, four columns from where it
\* spawned, and locked there on top of the stack
C11_Witness ==
  /\ locks = 1
  /\ locked_grid[5] = WellRow
  /\ locked_grid[4][10] # 0
  /\ locked_grid[4][9] # 0
  /\ locked_grid[3][10] # 0
  /\ keys = 0

(***************************************************************************)
(* Claims: shooter game, lives and the end of the game                     *)
(***************************************************************************)
\* an alien bullet, moved down by this frame's update, overlaps the player,
\* who stood still or moved a step to the left or to the right
\* or a bullet fired in this frame from the bottom centre of an alien, which
\* may have moved or dropped in this frame, does
AlienBulletStrikes ==
  \E px \in {player.x - 5, player.x, player.x + 5} :
    \/ \E i \in 1 .. Len(alien_bullets) :
         CollideRect(alien_bullets[i].x, alien_bullets[i].y + 7, 3, 10,
                     px, 560, 50, 30)
    \/ \E a \in DOMAIN aliens, dx \in {0, alien_speed, -alien_speed}, dy \in {0, 20} :
         CollideRect(aliens[a].x + dx + 19, aliens[a].y + dy + 30, 3, 10,
                     px, 560, 50, 30)

\* C12: lives starts at 3 and stays in 0..3; it changes only in a frame of
\* the active game in which an alien bullet overlaps the player, and then
\* by exactly -1, however many bullets overlap; game_over is set in the
\* frame in which lives reaches 0; after a hit that is not fatal the
\* player's x is 375.
C12_LivesAndHits ==
  [][/\ (ticks = 0 /\ frames = 0 => lives = 3)
     /\ lives \in 0 .. 3 /\ lives' \in 0 .. 3
     /\ lives' # lives =>
          /\ Frame /\ ShooterActive
          /\ lives' = lives - 1
          /\ AlienBulletStrikes
          /\ (lives' = 0 => shooter_over')
          /\ (lives' > 0 => player'.x = 375)]_vars

\* two alien bullets overlapped the player in the first frame: one life was
\* lost, the player was put back, and the second bullet is still in play
C12_Witness ==
  /\ frames = 1
  /\ lives = 2
  /\ player.x = 375
  /\ Len(alien_bullets) = 1
  /\ BulletHitsPlayer(alien_bullets[1], player.x)

\* some remaining alien has rect.bottom >= top
ReachedRow(top) == \E a \in DOMAIN aliens : aliens[a].y + 30 >= top

\* what the end of a frame shows when the player's rect.top is top
EndOfFrame(top) ==
  /\ ReachedRow(top) => shooter_over
  /\ DOMAIN aliens = {} => win
  /\ win => DOMAIN aliens = {}

\* C13, with the player's rect.top as the code has it (600 - 30 - 10 = 560):
\* at the end of every frame of the active game, game_over is true if some
\* remaining alien has rect.bottom >= 560, win is true if no alien remains,
\* and win is not set while an alien remains.
C13_EndOfGame == [][(Frame /\ ShooterActive) => EndOfFrame(560)']_vars

\* C13 as it is worded: the player's rect.top, the row that ends the game,
\* is 570
C13_AsStated ==
  [][(Frame /\ ShooterActive) => (PlayerY = 570 /\ EndOfFrame(570)')]_vars

\* the swarm dropped onto the player's row, rect.bottom = 560, and the game
\* ended in that frame with no life lost
C13_Witness ==
  /\ frames = 1
  /\ shooter_over
  /\ ~win
  /\ lives = 3
  /\ ReachedRow(560)
  /\ ~ReachedRow(570)

\* C14: once game_over or win is true, the flag stays true, a SPACE press
\* creates no bullet, and score, lives, alien_speed, the player, the aliens
\* and both bullet groups (members and positions) never change again.
C14_FrozenAfterEnd ==
  [][(shooter_over \/ win) =>
       /\ shooter_over => shooter_over'
       /\ win => win'
       /\ UNCHANGED <<score, lives, alien_speed, player, aliens,
                      player_bullets, alien_bullets>>]_vars

\* the swarm dropped onto the player's row in the first frame; a second
\* frame passed and SPACE was pressed three times, all after the end, since
\* no player bullet is in play and no alien was shot
C14_Witness ==
  /\ shooter_over
  /\ frames = 2
  /\ presses = 3
  /\ score = 0
  /\ player_bullets = << >>
  /\ player.bullets = << >>

\* C15: the swarm drops only in a frame of the running game whose alien-move
\* tick comes more than 50 ms after the previous move, at which some alien
\* touched a screen edge (left <= 0 or right >= 800) before the move and more
\* than 300 ms have passed since the previous drop; the drop reverses the
\* direction of every remaining alien and adds exactly 20 to its y; without a
\* drop no alien's y or direction changes; all aliens share one direction,
\* and no alien's y ever decreases.
SwarmDropped ==
  \/ last_alien_drop' # last_alien_drop
  \/ \E a \in DOMAIN aliens' :
       aliens'[a].y # aliens[a].y \/ aliens'[a].direction # aliens[a].direction

C15_SwarmDrop ==
  [][/\ DOMAIN aliens' \subseteq DOMAIN aliens
     /\ \E d \in {-1, 1} : \A a \in DOMAIN aliens : aliens[a].direction = d
     /\ \A a \in DOMAIN aliens' : aliens'[a].y >= aliens[a].y
     /\ SwarmDropped =>
          /\ frames' = frames + 1 /\ presses' = presses
          /\ ShooterActive
          /\ \E now \in {ticks', ticks' - 1000} :
               /\ now > ticks
               /\ last_alien_move' = now
               /\ last_alien_drop' = now
               /\ now - last_alien_move > 50
               /\ now - last_alien_drop > 300
          /\ \E a \in DOMAIN aliens :
               aliens[a].x <= 0 \/ aliens[a].x + 40 >= 800
          /\ \A a \in DOMAIN aliens' :
               /\ aliens'[a].direction = -aliens[a].direction
               /\ aliens'[a].y = aliens[a].y + 20]_vars

\* the swarm stood at the left edge 200 ms after a drop: the tick of the
\* first frame (60 ms) moved it without a drop, the tick of the second frame
\* (60 ms later) dropped it and turned it to the right
C15_Witness ==
  /\ frames = 2
  /\ last_alien_move = 100120
  /\ last_alien_drop = 100120
  /\ DOMAIN aliens = AlienIds
  /\ \A a \in DOMAIN aliens :
       /\ aliens[a].direction = 1
       /\ aliens[a].x = AlienCol(a) * 50 + 50 - 50 - 2
       /\ aliens[a].y = AlienRow(a) * 40 + 50 + 15 * 20 + 20

====
